---- MODULE Spec2Model ----
(***************************************************************************)
(* Model of skills/gemini-image-gen/scripts/generate.py: one run of the    *)
(* command-line script.  Strings are sequences of characters; the two      *)
(* variable names are single tokens, every other character is itself.      *)
(* Optional[str] is a string, or the one-token sequence None.              *)
(***************************************************************************)
EXTENDS Integers, Sequences, FiniteSets

VARIABLES pc, environ, files, args, api_key, consulted, examined, stdout,
          requests, response, i, image_count, clock, fs, fs0, dirs,
          writes, raised, success, exit_code

vars == <<pc, environ, files, args, api_key, consulted, examined, stdout,
          requests, response, i, image_count, clock, fs, fs0, dirs,
          writes, raised, success, exit_code>>

keyVars == <<environ, files, args>>
genVars == <<requests, response, i, image_count, clock, fs, fs0, dirs,
             writes, raised, success, exit_code>>

(*------------------------------ bounds ----------------------------------*)
MaxValLen == 5
MaxLines == 2
MaxParts == 3
MaxClock == 1

(*------------------------------ strings ---------------------------------*)
SP == "sp"
DQ == "dq"
SQ == "sq"
EQ == "="
GOOGLE == "GOOGLE_API_KEY"
GEMINI == "GEMINI_API_KEY"
None == <<"None">>

Whitespace == {SP}

Truthy(v) == v # None /\ v # <<>>

RECURSIVE LStrip(_, _)
LStrip(s, cs) ==
    IF s # <<>> /\ Head(s) \in cs THEN LStrip(Tail(s), cs) ELSE s

RECURSIVE RStrip(_, _)
RStrip(s, cs) ==
    IF s # <<>> /\ s[Len(s)] \in cs
    THEN RStrip(SubSeq(s, 1, Len(s) - 1), cs)
    ELSE s

\* str.strip(chars): every leading and trailing character that is in chars
Strip(s, cs) == RStrip(LStrip(s, cs), cs)

StartsWith(s, p) == Len(s) >= Len(p) /\ SubSeq(s, 1, Len(p)) = p

KeyPrefixes == {<<GOOGLE, EQ>>, <<GEMINI, EQ>>}

\* line.startswith(('GOOGLE_API_KEY=', 'GEMINI_API_KEY='))
IsKeyLine(line) == \E p \in KeyPrefixes : StartsWith(line, p)

\* line.split('=', 1)[1]: what follows the first '='
AfterFirstEq(line) ==
    LET k == CHOOSE n \in 1..Len(line) :
                 line[n] = EQ /\ \A m \in 1..(n - 1) : line[m] # EQ
    IN  SubSeq(line, k + 1, Len(line))

\* key = line.split('=', 1)[1].strip(); key = key.strip('"').strip("'")
StripQuotes(key) == Strip(Strip(key, {DQ}), {SQ})

ParseKey(line) == StripQuotes(Strip(AfterFirstEq(line), Whitespace))

\* a scan that goes on to the next line when a key line has an empty value
RECURSIVE ScanLinesSkipEmpty(_, _)
ScanLinesSkipEmpty(lines, n) ==
    IF n > Len(lines)
    THEN [key |-> None, examined |-> Len(lines)]
    ELSE LET line == Strip(lines[n], Whitespace)
         IN  IF IsKeyLine(line) /\ ParseKey(line) # <<>>
             THEN [key |-> ParseKey(line), examined |-> n]
             ELSE ScanLinesSkipEmpty(lines, n + 1)

\* the for loop of load_env_file over the lines from position n on:
\* the key returned (or None) and the number of lines read
RECURSIVE ScanLines(_, _)
ScanLines(lines, n) ==
    IF n > Len(lines)
    THEN [key |-> None, examined |-> Len(lines)]
    ELSE LET line == Strip(lines[n], Whitespace)
         IN  IF IsKeyLine(line)
             THEN LET key == ParseKey(line)
                  IN  [key |-> IF key # <<>> THEN key ELSE None,
                       examined |-> n]
             ELSE ScanLines(lines, n + 1)

\* load_env_file: open() failing is caught, warned about, and gives None
load_env_file(file) ==
    IF file.readable
    THEN LET r == ScanLines(file.lines, 1)
         IN  [key |-> r.key, examined |-> r.examined, warned |-> FALSE]
    ELSE [key |-> None, examined |-> 0, warned |-> TRUE]

(*--------------------------- find_api_key -------------------------------*)
Missing == [exists |-> FALSE, readable |-> FALSE, lines |-> <<>>]
Unreadable == [exists |-> TRUE, readable |-> FALSE, lines |-> <<>>]
Readable(lines) == [exists |-> TRUE, readable |-> TRUE, lines |-> lines]

\* a first check that reads the alternate variable
CheckGoogleEnvSwapped ==
    /\ pc = "find_api_key"
    /\ consulted' = Append(consulted, "env:GOOGLE_API_KEY")
    /\ IF Truthy(environ[GEMINI])
       THEN /\ api_key' = environ[GEMINI]
            /\ stdout' = Append(stdout, <<"found", "env:GOOGLE_API_KEY">>)
            /\ pc' = "main_check"
       ELSE /\ pc' = "check_gemini"
            /\ UNCHANGED <<api_key, stdout>>
    /\ UNCHANGED <<keyVars, genVars, examined>>

\* os.getenv('GOOGLE_API_KEY'); if api_key: return api_key
CheckGoogleEnv ==
    /\ pc = "find_api_key"
    /\ consulted' = Append(consulted, "env:GOOGLE_API_KEY")
    /\ IF Truthy(environ[GOOGLE])
       THEN /\ api_key' = environ[GOOGLE]
            /\ stdout' = Append(stdout, <<"found", "env:GOOGLE_API_KEY">>)
            /\ pc' = "main_check"
       ELSE /\ pc' = "check_gemini"
            /\ UNCHANGED <<api_key, stdout>>
    /\ UNCHANGED <<keyVars, genVars, examined>>

\* os.getenv('GEMINI_API_KEY'); if api_key: return api_key
CheckGeminiEnv ==
    /\ pc = "check_gemini"
    /\ consulted' = Append(consulted, "env:GEMINI_API_KEY")
    /\ IF Truthy(environ[GEMINI])
       THEN /\ api_key' = environ[GEMINI]
            /\ stdout' = Append(stdout, <<"found", "env:GEMINI_API_KEY">>)
            /\ pc' = "main_check"
       ELSE /\ pc' = "check_skill"
            /\ UNCHANGED <<api_key, stdout>>
    /\ UNCHANGED <<keyVars, genVars, examined>>

\* if env.exists(): api_key = load_env_file(env); if api_key: return api_key
\* for the file named src, going on at pc value next when it gives no key
CheckEnvFile(src, next) ==
    /\ consulted' = Append(consulted, src)
    /\ IF files[src].exists
       THEN LET r == load_env_file(files[src])
                warn == IF r.warned THEN <<<<"warning", src>>>> ELSE <<>>
            IN  /\ examined' = r.examined
                /\ IF Truthy(r.key)
                   THEN /\ api_key' = r.key
                        /\ stdout' = stdout \o warn \o <<<<"found", src>>>>
                        /\ pc' = "main_check"
                   ELSE /\ stdout' = stdout \o warn
                        /\ pc' = next
                        /\ UNCHANGED api_key
       ELSE /\ pc' = next
            /\ UNCHANGED <<api_key, stdout, examined>>
    /\ UNCHANGED <<keyVars, genVars>>

\* a skill-file check that returns whatever load_env_file gave
CheckSkillEnvFileReturns ==
    /\ pc = "check_skill"
    /\ CheckEnvFile("skill", "main_check")

CheckSkillEnvFile ==
    /\ pc = "check_skill"
    /\ CheckEnvFile("skill", "check_project")

\* the project file is the last source: return None after it
CheckProjectEnvFile ==
    /\ pc = "check_project"
    /\ CheckEnvFile("project", "main_check")

\* load_env_file called on its own, on the skill-directory file
LoadEnvFile ==
    /\ pc = "load_env_file"
    /\ LET r == load_env_file(files["skill"])
       IN  /\ api_key' = r.key
           /\ examined' = r.examined
           /\ stdout' = IF r.warned
                        THEN Append(stdout, <<"warning", "skill">>)
                        ELSE stdout
    /\ pc' = "loaded"
    /\ UNCHANGED <<keyVars, genVars, consulted>>

(*------------------------------- main -----------------------------------*)
\* a main that goes on to the request without a key
MainCheckKeyNoExit ==
    /\ pc = "main_check"
    /\ pc' = "generate_image"
    /\ UNCHANGED <<keyVars, api_key, consulted, examined, stdout, genVars>>

\* if not api_key: print the guidance; sys.exit(1)
MainCheckKey ==
    /\ pc = "main_check"
    /\ IF ~Truthy(api_key)
       THEN /\ stdout' = Append(stdout, <<"not_found", "guidance">>)
            /\ exit_code' = 1
            /\ pc' = "exited"
       ELSE /\ pc' = "generate_image"
            /\ UNCHANGED <<stdout, exit_code>>
    /\ UNCHANGED <<keyVars, api_key, consulted, examined, requests, response,
                   i, image_count, clock, fs, fs0, dirs, writes, raised,
                   success>>

(*--------------------------- generate_image -----------------------------*)
NoData == "None"
Payloads == {"p1", "p2"}
Texts == {"t1"}
PartKinds == [inline_data : Payloads, text : {NoData}]
             \cup [inline_data : {NoData}, text : Texts \cup {NoData}]

\* hasattr(part, 'inline_data') and part.inline_data
IsImage(part) == part.inline_data # NoData
\* hasattr(p, 'text') and p.text
IsText(part) == part.text # NoData

SeqsUpTo(S, n) == UNION {[1..k -> S] : k \in 0..n}

Responses == {[candidates |-> <<>>]}
             \cup {[candidates |-> <<parts>>] : parts \in SeqsUpTo(PartKinds, MaxParts)}
NoResponse == [candidates |-> <<>>]

NoOutput == "None"
AssetsDir == "./docs/assets"
\* a default name that leaves the part index out
DefaultPathNoIndex(timestamp, idx) == <<AssetsDir, timestamp, 0>>
\* assets_dir / f'gemini-{timestamp}-{i}.png'
DefaultPath(timestamp, idx) == <<AssetsDir, timestamp, idx>>
\* an explicit path made different for every part
SavePathPerPart(output_path, timestamp, idx) ==
    IF output_path # NoOutput THEN <<output_path, idx>>
    ELSE DefaultPath(timestamp, idx)
\* Path(output_path) if output_path else the default path
SavePath(output_path, timestamp, idx) ==
    IF output_path # NoOutput THEN <<output_path>>
    ELSE DefaultPath(timestamp, idx)
\* save_path.parent
Parent(path) == IF Len(path) = 1 THEN "." ELSE path[1]

\* the file system after open(save_path, 'wb') and f.write(data)
WriteFile(files_, path, data) ==
    [q \in DOMAIN files_ \cup {path} |->
        IF q = path THEN data ELSE files_[q]]

NoCandidatesSucceeds == TRUE
\* return False after "No candidates in response"
NoCandidatesResult == FALSE
\* a result that does not look at the image counter
LoopResultAlways(count) == TRUE
\* if image_count == 0: return False; else return True
LoopResult(count) == count > 0
\* except Exception: return False
ExceptResult == FALSE
\* sys.exit(0 if success else 1)
ExitCode(ok) == IF ok THEN 0 ELSE 1

\* a client call that is made again after it raised
CallGenerateContentRetry ==
    /\ pc = "generate_image"
    /\ requests < 2
    /\ requests' = requests + 1
    /\ raised' = TRUE
    /\ stdout' = Append(stdout, <<"error", "generate_content">>)
    /\ success' = FALSE
    /\ pc' = IF requests = 0 THEN "generate_image" ELSE "returned"
    /\ UNCHANGED <<keyVars, api_key, consulted, examined, response, i,
                   image_count, clock, fs, fs0, dirs, writes, exit_code>>

\* lines 132-150: the client call, which raises or returns a response
CallGenerateContent ==
    /\ pc = "generate_image"
    /\ requests' = requests + 1
    /\ \E outcome \in {"raise", "return"} :
         IF outcome = "raise"
         THEN /\ raised' = TRUE
              /\ stdout' = Append(stdout, <<"error", "generate_content">>)
              /\ success' = ExceptResult
              /\ pc' = "returned"
              /\ UNCHANGED response
         ELSE \E r \in Responses :
              /\ response' = r
              /\ IF r.candidates = <<>>
                 THEN /\ stdout' = Append(stdout, <<"no_candidates", "">>)
                      /\ success' = NoCandidatesResult
                      /\ pc' = "returned"
                 ELSE /\ pc' = "parts"
                      /\ UNCHANGED <<stdout, success>>
              /\ UNCHANGED raised
    /\ UNCHANGED <<keyVars, api_key, consulted, examined, i, image_count,
                   clock, fs, fs0, dirs, writes, exit_code>>

Parts == response.candidates[1]

\* lines 156-175: one iteration of the loop over candidate.content.parts;
\* datetime.now() reads a clock that may have moved on; mkdir, open and
\* write may raise, which ends generate_image in its except clause
ProcessPart ==
    /\ pc = "parts"
    /\ i < Len(Parts)
    /\ LET part == Parts[i + 1]
       IN  IF ~IsImage(part)
           THEN /\ i' = i + 1
                /\ UNCHANGED <<pc, image_count, clock, fs, dirs, writes,
                               raised, success, stdout>>
           ELSE \E now \in (IF args.output # NoOutput THEN {clock}
                             ELSE clock..MaxClock) :
                \E io \in {"ok", "open_raises", "write_raises"} :
                LET path == SavePath(args.output, now, i)
                    made == IF args.output # NoOutput THEN {Parent(path)}
                            ELSE {AssetsDir, Parent(path)}
                IN  /\ image_count' = image_count + 1
                    /\ clock' = now
                    /\ CASE io = "ok" ->
                            /\ dirs' = dirs \cup made
                            /\ fs' = WriteFile(fs, path, part.inline_data)
                            /\ writes' = Append(writes,
                                   [path |-> path, data |-> part.inline_data,
                                    index |-> i])
                            /\ stdout' = Append(stdout, <<"saved", path>>)
                            /\ i' = i + 1
                            /\ UNCHANGED <<pc, raised, success>>
                         [] io = "open_raises" ->
                            /\ raised' = TRUE
                            /\ success' = ExceptResult
                            /\ stdout' = Append(stdout, <<"error", "open">>)
                            /\ pc' = "returned"
                            /\ UNCHANGED <<dirs, fs, writes, i>>
                         [] io = "write_raises" ->
                            /\ dirs' = dirs \cup made
                            /\ fs' = WriteFile(fs, path, "")
                            /\ raised' = TRUE
                            /\ success' = ExceptResult
                            /\ stdout' = Append(stdout, <<"error", "write">>)
                            /\ pc' = "returned"
                            /\ UNCHANGED <<writes, i>>
    /\ UNCHANGED <<keyVars, api_key, consulted, examined, requests, response,
                   fs0, exit_code>>

\* the texts of the parts, in order
RECURSIVE TextParts(_)
TextParts(parts) ==
    IF parts = <<>> THEN <<>>
    ELSE (IF IsText(Head(parts)) THEN <<<<"text", Head(parts).text>>>> ELSE <<>>)
         \o TextParts(Tail(parts))

\* lines 177-190: after the loop, print the texts and return the result
FinishParts ==
    /\ pc = "parts"
    /\ i = Len(Parts)
    /\ stdout' = stdout
                  \o (IF args.include_text THEN TextParts(Parts) ELSE <<>>)
                  \o <<IF image_count = 0 THEN <<"no_images", "">>
                       ELSE <<"success", image_count>>>>
    /\ success' = LoopResult(image_count)
    /\ pc' = "returned"
    /\ UNCHANGED <<keyVars, api_key, consulted, examined, requests, response,
                   i, image_count, clock, fs, fs0, dirs, writes, raised,
                   exit_code>>

\* sys.exit(0 if success else 1)
MainExit ==
    /\ pc = "returned"
    /\ exit_code' = ExitCode(success)
    /\ pc' = "exited"
    /\ UNCHANGED <<keyVars, api_key, consulted, examined, stdout, requests,
                   response, i, image_count, clock, fs, fs0, dirs, writes,
                   raised, success>>

(*--------------------------- specifications -----------------------------*)
NoFiles == [q \in {} |-> ""]

\* the state when main has parsed the arguments, before any source is read
Start(at) ==
    /\ pc = at
    /\ api_key = None
    /\ consulted = <<>>
    /\ examined = 0
    /\ stdout = <<>>
    /\ requests = 0
    /\ response = NoResponse
    /\ i = 0
    /\ image_count = 0
    /\ clock = 0
    /\ dirs = {"."}
    /\ writes = <<>>
    /\ raised = FALSE
    /\ success = FALSE
    /\ exit_code = -1
    /\ fs0 = fs

Environ(google, gemini) ==
    [n \in {GOOGLE, GEMINI} |-> IF n = GOOGLE THEN google ELSE gemini]
Files(skill, project) ==
    [n \in {"skill", "project"} |-> IF n = "skill" THEN skill ELSE project]

KeyFile(name, key) == Readable(<<<<name, EQ>> \o key>>)

\* one run of the script: where the key is (if anywhere), the arguments,
\* and whether the explicit output path already holds a file
RunSources ==
    { [e |-> Environ(<<"g">>, <<"e">>), f |-> Files(Missing, Missing)],
      [e |-> Environ(<<>>, <<"e">>), f |-> Files(Missing, Missing)],
      [e |-> Environ(None, None),
       f |-> Files(KeyFile(GOOGLE, <<DQ, "s", DQ>>), Missing)],
      [e |-> Environ(None, None),
       f |-> Files(Unreadable, KeyFile(GEMINI, <<"p">>))],
      [e |-> Environ(None, <<>>), f |-> Files(Missing, Unreadable)],
      [e |-> Environ(None, None),
       f |-> Files(KeyFile(GOOGLE, <<>>), Missing)] }

Args == [include_text : BOOLEAN, output : {NoOutput, "custom.png"}]

Init ==
    /\ \E src \in RunSources : environ = src.e /\ files = src.f
    /\ args \in Args
    /\ fs \in (IF args.output # NoOutput
               THEN {NoFiles, WriteFile(NoFiles, <<args.output>>, "old")}
               ELSE {NoFiles})
    /\ Start("find_api_key")

find_api_key ==
    \/ CheckGoogleEnv
    \/ CheckGeminiEnv
    \/ CheckSkillEnvFile
    \/ CheckProjectEnvFile

generate_image ==
    \/ CallGenerateContent
    \/ ProcessPart
    \/ FinishParts

Next ==
    \/ find_api_key
    \/ MainCheckKey
    \/ generate_image
    \/ MainExit

Spec == Init /\ [][Next]_vars

\* find_api_key alone, over the environment and the two files
EnvValues == {None, <<>>}
KeyLines == { <<GOOGLE, EQ, "a">>, <<GEMINI, EQ, DQ, "b", DQ>>,
              <<GOOGLE, EQ>>, <<"X", EQ, "a">> }
KeyFiles == {Missing, Unreadable}
            \cup {Readable(f) : f \in SeqsUpTo(KeyLines, MaxLines)}

InitKey ==
    /\ environ \in { Environ(g, e) : g \in EnvValues \cup {<<"g">>},
                                     e \in EnvValues \cup {<<"e">>} }
    /\ files \in { Files(s, p) : s \in KeyFiles, p \in KeyFiles }
    /\ args = [include_text |-> FALSE, output |-> NoOutput]
    /\ fs = NoFiles
    /\ Start("find_api_key")

SpecKey == InitKey /\ [][find_api_key]_vars

\* load_env_file alone, over the lines of one file
ValueChars == {SP, DQ, SQ, "a"}
\* values that hold a further '=' themselves
EqValues == {<<EQ>>, <<"a", EQ, "a">>, <<DQ, "a", EQ, DQ>>}
Leads == {<<>>, <<SP>>}
LinePrefixes == KeyPrefixes \cup {<<"X", EQ>>}
OneLines == { l \o p \o v : l \in Leads, p \in LinePrefixes,
                             v \in SeqsUpTo(ValueChars, MaxValLen)
                                   \cup EqValues }
FileValues == {<<>>, <<"a">>, <<"b">>, <<DQ, DQ>>}
FileLines == { l \o p \o v : l \in Leads, p \in LinePrefixes, v \in FileValues }
ParseFiles == {Unreadable}
              \cup {Readable(<<l>>) : l \in OneLines}
              \cup {Readable(f) : f \in SeqsUpTo(FileLines, MaxLines)}

InitParse ==
    /\ environ = Environ(None, None)
    /\ files \in { Files(s, Missing) : s \in ParseFiles }
    /\ args = [include_text |-> FALSE, output |-> NoOutput]
    /\ fs = NoFiles
    /\ Start("load_env_file")

SpecParse == InitParse /\ [][LoadEnvFile]_vars

(*------------------------------- claims ---------------------------------*)
SourceNames == <<"env:GOOGLE_API_KEY", "env:GEMINI_API_KEY", "skill", "project">>

\* what each source yields on its own: a non-empty key, or None
Yields ==
    << IF Truthy(environ[GOOGLE]) THEN environ[GOOGLE] ELSE None,
       IF Truthy(environ[GEMINI]) THEN environ[GEMINI] ELSE None,
       IF files["skill"].exists THEN load_env_file(files["skill"]).key ELSE None,
       IF files["project"].exists THEN load_env_file(files["project"]).key
       ELSE None >>

Matching == {k \in 1..4 : Truthy(Yields[k])}
Least(S) == CHOOSE k \in S : \A m \in S : k <= m
Greatest(S) == CHOOSE k \in S : \A m \in S : k >= m

\* C1: find_api_key returns the value of the earliest of the four sources
\* that yields a non-empty value, reads no source after it, and returns
\* None only when none of the four yields one
C1_EarliestSourceWins ==
    pc = "main_check" =>
        IF Matching = {}
        THEN api_key = None /\ consulted = SourceNames
        ELSE /\ api_key = Yields[Least(Matching)]
             /\ consulted = SubSeq(SourceNames, 1, Least(Matching))

C1_Witness ==
    /\ pc = "main_check"
    /\ Truthy(environ[GOOGLE]) /\ Truthy(environ[GEMINI])
    /\ Truthy(Yields[3])
    /\ api_key = environ[GOOGLE]
    /\ consulted = <<"env:GOOGLE_API_KEY">>

SkillLines == files["skill"].lines
\* the first line that is a key line once its whitespace is stripped (0: none)
FirstKeyLine ==
    LET S == {k \in 1..Len(SkillLines) : IsKeyLine(Strip(SkillLines[k], Whitespace))}
    IN  IF S = {} THEN 0 ELSE Least(S)
\* the first line that itself starts with NAME= (0: none)
FirstRawKeyLine ==
    LET S == {k \in 1..Len(SkillLines) : IsKeyLine(SkillLines[k])}
    IN  IF S = {} THEN 0 ELSE Least(S)

Opt(s) == IF s = <<>> THEN None ELSE s
\* one layer of enclosing quotes removed, when there is one
OneLayer(s) ==
    IF Len(s) >= 2 /\ s[1] \in {DQ, SQ} /\ s[Len(s)] = s[1]
    THEN SubSeq(s, 2, Len(s) - 1)
    ELSE s
Rest(line) == Strip(AfterFirstEq(Strip(line, Whitespace)), Whitespace)

\* C2: for a matching line NAME=rest, load_env_file returns rest with the
\* surrounding whitespace and exactly one layer of enclosing quotes removed
C2_OneQuoteLayer ==
    (pc = "loaded" /\ files["skill"].readable /\ FirstKeyLine # 0) =>
        api_key = Opt(OneLayer(Rest(SkillLines[FirstKeyLine])))

\* nothing but whitespace follows the first '='
Blank(line) == Rest(line) = <<>>

\* what the line at position k decides for the whole file
DecidedBy(k) ==
    IF k = 0
    THEN api_key = None /\ examined = Len(SkillLines)
    ELSE /\ examined = k
         /\ api_key = load_env_file(Readable(<<SkillLines[k]>>)).key
         /\ Blank(SkillLines[k]) => api_key = None

\* C3 as stated: the first line that starts with GOOGLE_API_KEY= or
\* GEMINI_API_KEY= alone decides the file's result
C3_FirstRawLineDecides ==
    (pc = "loaded" /\ files["skill"].readable) => DecidedBy(FirstRawKeyLine)

\* C3 amended: the first line that, with its leading and trailing whitespace
\* stripped, starts with GOOGLE_API_KEY= or GEMINI_API_KEY= alone decides the
\* file's result; no line after it is read, and an empty value there makes
\* the file a non-match whatever follows
C3_FirstKeyLineDecides ==
    (pc = "loaded" /\ files["skill"].readable) => DecidedBy(FirstKeyLine)

C3_Witness ==
    /\ pc = "loaded"
    /\ Len(SkillLines) = 2
    /\ FirstKeyLine = 1
    /\ Blank(SkillLines[1])
    /\ IsKeyLine(SkillLines[2]) /\ ~Blank(SkillLines[2])
    /\ api_key = None
    /\ examined = 1

Usable(f) == f.exists /\ f.readable
Warnings == Len(SelectSeq(stdout, LAMBDA e : e[1] = "warning"))

\* C4: a missing or unreadable skill-directory file is a non-match, not an
\* error: the project-root file is read next and supplies the key if it has
\* one, and when it fails too the result is None; each unreadable file is
\* warned about
C4_FileFailureContinues ==
    (/\ pc = "main_check"
     /\ ~Truthy(environ[GOOGLE]) /\ ~Truthy(environ[GEMINI])
     /\ ~Usable(files["skill"]))
    => /\ consulted = SourceNames
       /\ api_key = IF Usable(files["project"])
                    THEN ScanLines(files["project"].lines, 1).key
                    ELSE None
       /\ Warnings = Cardinality({n \in {"skill", "project"} :
                                     files[n] = Unreadable})

C4_Witness ==
    /\ pc = "main_check"
    /\ files["skill"] = Unreadable
    /\ Usable(files["project"])
    /\ consulted = SourceNames
    /\ api_key = <<"b">>
    /\ Warnings = 1

Exited == pc = "exited"
Returned == pc \in {"returned", "exited"}

\* C5: when no key is found the run ends with exit code 1, and in that run
\* no request is issued and no file is written; a request is only ever
\* issued with a key
C5_NoKeyNoRequest ==
    /\ (pc \in {"main_check", "exited"} /\ ~Truthy(api_key))
       => /\ requests = 0
          /\ writes = <<>>
          /\ fs = fs0
          /\ Exited => exit_code = 1
    /\ pc \in {"generate_image", "parts", "returned"} => Truthy(api_key)
    /\ requests > 0 => Truthy(api_key)

C5_Witness ==
    /\ Exited
    /\ ~Truthy(api_key)
    /\ exit_code = 1
    /\ consulted = SourceNames
    /\ requests = 0

\* C6 as stated: a run exits with code 0 if and only if at least one image
\* part was written to disk, and with code 1 otherwise
C6_ExitZeroIffImageWritten ==
    Exited => /\ exit_code \in {0, 1}
              /\ exit_code = 0 <=> Len(writes) >= 1

\* C6 amended: a run exits with code 0 if and only if at least one image
\* part was written to disk and no exception was raised during the request
\* or the response handling; every other run (no key, no candidates, no
\* image part, an exception, also one raised after an image was written)
\* exits with code 1, whatever text was produced
C6_ExitZeroIffImageWrittenAndNoException ==
    Exited => /\ exit_code \in {0, 1}
              /\ exit_code = 0 <=> (Len(writes) >= 1 /\ ~raised)
              /\ exit_code = 0 => Truthy(api_key) /\ response.candidates # <<>>

C6_Witness ==
    /\ Exited
    /\ exit_code = 1
    /\ raised
    /\ Len(writes) >= 1

\* the positions (from 1) of the image parts of the first candidate
ImagePositions == {k \in 1..Len(Parts) : IsImage(Parts[k])}
\* the position of the n-th image part
NthImage(n) ==
    CHOOSE k \in ImagePositions :
        Cardinality({m \in ImagePositions : m <= k}) = n

\* generate_image went through a response with two image parts, without an
\* explicit output path and without an exception
TwoImagesDefaultPath ==
    /\ Returned
    /\ response.candidates # <<>>
    /\ ~raised
    /\ args.output = NoOutput
    /\ Cardinality(ImagePositions) = 2

\* C7 as stated: with two image parts and no explicit output path, two
\* files are created under ./docs/assets whose names share one timestamp
\* and end in the indices 0 and 1
C7_SameTimestampIndexZeroOne ==
    TwoImagesDefaultPath =>
        \E t \in 0..MaxClock :
            /\ DOMAIN fs = {DefaultPath(t, 0), DefaultPath(t, 1)}
            /\ Len(writes) = 2
            /\ writes[1].path = DefaultPath(t, 0)
            /\ writes[2].path = DefaultPath(t, 1)

\* C7 amended: with two image parts, no explicit output path and no
\* exception, two distinct files are created under ./docs/assets, each
\* holding its part's payload; the trailing index of each name is the
\* part's position among all parts of the response (from 0), and the
\* timestamp is read anew for each part
C7_DistinctFilesByPartIndex ==
    TwoImagesDefaultPath =>
        /\ Len(writes) = 2
        /\ writes[1].path # writes[2].path
        /\ DOMAIN fs = {writes[1].path, writes[2].path}
        /\ AssetsDir \in dirs
        /\ \A n \in 1..2 :
              /\ Len(writes[n].path) = 3
              /\ writes[n].path[1] = AssetsDir
              /\ writes[n].path[2] \in 0..MaxClock
              /\ writes[n].path[3] = NthImage(n) - 1
              /\ fs[writes[n].path] = Parts[NthImage(n)].inline_data

C7_Witness ==
    /\ TwoImagesDefaultPath
    /\ Exited
    /\ Len(writes) = 2
    /\ writes[1].path[2] # writes[2].path[2]
    /\ writes[1].path[3] = 1
    /\ writes[2].path[3] = 2

\* the writes went to the parts in their order
InPartOrder ==
    \A m, n \in 1..Len(writes) : m < n => writes[m].index < writes[n].index

ZeroCandidates == requests = 1 /\ ~raised /\ response.candidates = <<>>

\* C9: when the response has zero candidates generate_image returns failure
\* and no file or directory is created or modified during the run
C9_ZeroCandidatesNoFiles ==
    ZeroCandidates =>
        /\ Returned
        /\ ~success
        /\ writes = <<>>
        /\ fs = fs0
        /\ dirs = {"."}
        /\ Exited => exit_code = 1

C9_Witness ==
    /\ ZeroCandidates
    /\ Exited
    /\ fs0 # NoFiles
    /\ fs = fs0
    /\ exit_code = 1

\* the client call raised
RequestRaised == raised /\ response = NoResponse

\* C10: a run issues at most one request; when the client call raises,
\* generate_image returns failure to main, which exits with code 1, and no
\* second request follows
C10_OneRequestNoRetry ==
    /\ requests <= 1
    /\ RequestRaised
       => /\ requests = 1
          /\ Returned
          /\ ~success
          /\ writes = <<>>
          /\ Exited => exit_code = 1
    /\ Exited /\ Truthy(api_key) => requests = 1

C10_Witness ==
    /\ Exited
    /\ RequestRaised
    /\ requests = 1
    /\ exit_code = 1

====
